---------------------------- MODULE Spec2Model ----------------------------
(***************************************************************************)
(* A model of and734/rss-feed-reader:                                      *)
(*   src/rss_reader_custom_parser.py  fetch_feed_content, the custom XML   *)
(*                                    parser parse_feed_custom, the        *)
(*                                    display function and main's loop     *)
(*   src/rss_reader_multi.py          the same loop over feedparser        *)
(*                                                                         *)
(* Representation of Python values.                                       *)
(*   str         a sequence of tokens; the token " " is one whitespace     *)
(*               character, every other token is a run of non-whitespace   *)
(*               characters.  <<>> is the empty string "".                 *)
(*   str | None  NoneStr stands for None among strings.                    *)
(*   obj | None  None stands for None among records (elements, dicts,      *)
(*               contents).                                                *)
(*   Element     [tag, attrib, text, children], as xml.etree.ElementTree   *)
(*               builds it: tag is "{uri}local" for a namespaced element   *)
(*               (the tokens "{", uri, "}", then the local name), text is  *)
(*               None for an element without character data, attrib is a   *)
(*               set of <<name, value>> pairs.                             *)
(***************************************************************************)
EXTENDS Naturals, Sequences, FiniteSets, TLC

VARIABLES
    feed_content,   \* ParseSpec: the argument of parse_feed_custom; Spec: main's feed_content
    result,         \* ParseSpec: what parse_feed_custom returned and printed
    feed_urls,      \* main: the list of URLs
    idx,            \* main: position of the for loop in feed_urls (1-based)
    pc,             \* main: the statement the loop is at
    response,       \* main: what requests.get met for the current URL
    parsed_data,    \* main: parsed_data of the current iteration
    use_custom_parser, \* main: args.use_custom_parser
    out             \* main: the lines printed so far (stdout and stderr), in order

vars == <<feed_content, result, feed_urls, idx, pc, response, parsed_data,
          use_custom_parser, out>>

-----------------------------------------------------------------------------
(* Bounds of the model *)

MaxLinks == 3
MaxEntries == 2
MaxUrls == 2

-----------------------------------------------------------------------------
(* Python values *)

None == [none |-> TRUE]
NoneStr == <<"<None>">>

\* Python truthiness of a str | None: None and "" are falsy.
Truthy(s) == s # NoneStr /\ s # <<>>

RECURSIVE lstrip(_)
lstrip(s) == IF s # <<>> /\ Head(s) = " " THEN lstrip(Tail(s)) ELSE s

RECURSIVE rstrip(_)
rstrip(s) ==
    IF s # <<>> /\ s[Len(s)] = " " THEN rstrip(SubSeq(s, 1, Len(s) - 1)) ELSE s

\* str.strip()
strip(s) == rstrip(lstrip(s))

\* str.endswith(suffix), for a suffix that is one token
endswith(s, suffix) == s # <<>> /\ s[Len(s)] = suffix

-----------------------------------------------------------------------------
(* xml.etree.ElementTree *)

AtomNs == "http://www.w3.org/2005/Atom"
OtherNs == "http://example.com/ns"

\* The tag ElementTree gives an element of namespace ns ("" for none) and local name.
QName(ns, local) == IF ns = "" THEN local ELSE <<"{", ns, "}">> \o local

Element(tag, attrib, text, children) ==
    [tag |-> tag, attrib |-> attrib, text |-> text, children |-> children]

\* Element.get(key): the attribute's value, None when the attribute is absent.
get(element, key) ==
    IF \E p \in element.attrib : p[1] = key
    THEN (CHOOSE p \in element.attrib : p[1] = key)[2]
    ELSE NoneStr

\* ElementPath's prefix lookup: a path "prefix:local" whose prefix is not in the
\* namespaces map raises SyntaxError("prefix ... not found in prefix map").
raises_prefix_not_found(path, namespaces) ==
    path.prefix # "" /\ ~(\E p \in namespaces : p[1] = path.prefix)

\* The tag a path "prefix:local" (or "local") selects under the namespaces map.
resolve(path, namespaces) ==
    IF path.prefix = ""
    THEN path.local
    ELSE QName((CHOOSE p \in namespaces : p[1] = path.prefix)[2], path.local)

\* Element.findall(path, namespaces): the direct children selected, in document order.
findall(parent, path, namespaces) ==
    SelectSeq(parent.children, LAMBDA c : c.tag = resolve(path, namespaces))

\* Element.find(path, namespaces): the first direct child selected, or None.
find(parent, path, namespaces) ==
    LET m == findall(parent, path, namespaces)
    IN  IF m = <<>> THEN None ELSE m[1]

Path(prefix, local) == [prefix |-> prefix, local |-> <<local>>]


\* Feed content as a Python str: surrounding whitespace (ws) around an XML text
\* (doc), or around nothing.  "" is Text(FALSE, None); a whitespace-only body is
\* Text(TRUE, None).  An XML text is well-formed (wf) or not; root is the tree the
\* text spells out (for an ill-formed text: the elements spelled out before the
\* error).
Text(ws, doc) == [ws |-> ws, doc |-> doc]
Xml(wf, root) == [wf |-> wf, root |-> root]
EmptyStr == Text(FALSE, None)

\* Python truthiness of feed_content: None and "" are falsy.
TruthyContent(content) == content # None /\ content # EmptyStr

\* feed_content.strip()
strip_content(content) == [content EXCEPT !.ws = FALSE]

\* A parser that recovers from errors instead: it raises on an empty text only.
fromstring_raises_ParseError_lenient(text) == text.doc = None

\* ET.fromstring(text) raises ParseError on an empty text ("no element found")
\* and on a text that is not well-formed.
fromstring_raises_ParseError(text) == text.doc = None \/ ~text.doc.wf

\* ET.fromstring(text), when it does not raise: the root element.
fromstring(text) == text.doc.root

-----------------------------------------------------------------------------
(* The custom XML parser: src/rss_reader_custom_parser.py *)

\* Before parse_feed_custom is called: nothing returned, nothing printed.
NoResult == [value |-> None, stderr |-> ""]

\* What parse_feed_custom prints to stderr before it returns None.
ErrParse == "Error (Custom Parser): Failed to parse XML"
ErrUnexpected == "An unexpected error occurred during custom parsing"
ErrNoChannel == "Error (Custom Parser): Could not find <channel> element in RSS feed."
ErrUnknown == "Error (Custom Parser): Unknown feed type (neither RSS nor Atom detected)."

\* find_element_text: element.text.strip() if element is not None and element.text
\* else None
find_element_text(parent_element, tag_name, namespaces) ==
    LET element == find(parent_element, tag_name, namespaces)
    IN  IF element # None /\ Truthy(element.text)
        THEN strip(element.text)
        ELSE NoneStr

\* The loop "for link in link_elems" of lines 139-142 (and 159-162), entered with
\* the links still to visit and the current value of primary_*_link:
\*     if link.get('rel') == 'alternate' or not link.get('rel'):
\*         primary = link.get('href')
\*         if primary: break
RECURSIVE link_loop(_, _)
link_loop(link_elems, primary) ==
    IF link_elems = <<>>
    THEN primary
    ELSE LET link == Head(link_elems)
         IN  IF get(link, "rel") = <<"alternate">> \/ ~Truthy(get(link, "rel"))
             THEN IF Truthy(get(link, "href"))
                  THEN get(link, "href")
                  ELSE link_loop(Tail(link_elems), get(link, "href"))
             ELSE link_loop(Tail(link_elems), primary)

\* Strict precedence instead: the first rel="alternate" link, else the first link
\* without rel, else the first link.
primary_feed_link_strict(feed_link_elems) ==
    LET alternate == SelectSeq(feed_link_elems,
                               LAMBDA l : get(l, "rel") = <<"alternate">>)
        typeless == SelectSeq(feed_link_elems, LAMBDA l : get(l, "rel") = NoneStr)
    IN  IF alternate # <<>> THEN get(alternate[1], "href")
        ELSE IF typeless # <<>> THEN get(typeless[1], "href")
        ELSE IF feed_link_elems # <<>> THEN get(feed_link_elems[1], "href")
        ELSE NoneStr

\* Lines 138-145: the feed's link.
primary_feed_link(feed_link_elems) ==
    LET primary == link_loop(feed_link_elems, NoneStr)
    IN  IF ~Truthy(primary) /\ feed_link_elems # <<>>
        THEN get(feed_link_elems[1], "href")
        ELSE primary

\* The first link's href instead, whatever its rel.
primary_item_link_first(item_link_elems) ==
    IF item_link_elems # <<>> THEN get(item_link_elems[1], "href") ELSE NoneStr

\* Lines 158-165: an entry's link.
primary_item_link(item_link_elems) ==
    LET primary == link_loop(item_link_elems, NoneStr)
    IN  IF ~Truthy(primary) /\ item_link_elems # <<>>
        THEN get(item_link_elems[1], "href")
        ELSE primary

\* Lines 149-165: entry_data of one atom:entry.
atom_entry_data(item, namespaces) ==
    LET summary == find_element_text(item, Path("atom", "summary"), namespaces)
    IN  [title |-> find_element_text(item, Path("atom", "title"), namespaces),
         description |->
            IF ~Truthy(summary)
            THEN find_element_text(item, Path("atom", "content"), namespaces)
            ELSE summary,
         link |-> primary_item_link(findall(item, Path("atom", "link"), namespaces))]

\* Lines 190-193: entry_data of one item of an RSS channel.
rss_entry_data(item, namespaces) ==
    [title |-> find_element_text(item, Path("", "title"), namespaces),
     link |-> find_element_text(item, Path("", "link"), namespaces),
     description |-> find_element_text(item, Path("", "description"), namespaces)]

\* The description counted as content too.
has_some_content_or_description(entry_data) ==
    Truthy(entry_data.title) \/ Truthy(entry_data.link) \/ Truthy(entry_data.description)

\* Lines 167 and 196: if entry_data.get('title') or entry_data.get('link')
has_some_content(entry_data) == Truthy(entry_data.title) \/ Truthy(entry_data.link)

\* Lines 124-168: the Atom branch.  Every lookup uses the prefix "atom"; the first
\* one (line 134) raises SyntaxError when the namespaces map has no such prefix,
\* which the handler of line 208 catches.
parse_atom(root, namespaces) ==
    IF raises_prefix_not_found(Path("atom", "title"), namespaces)
    THEN [value |-> None, stderr |-> ErrUnexpected]
    ELSE LET items == findall(root, Path("atom", "entry"), namespaces)
             data == [i \in 1..Len(items) |-> atom_entry_data(items[i], namespaces)]
         IN  [value |->
                [feed |->
                    [title |-> find_element_text(root, Path("atom", "title"), namespaces),
                     description |->
                        find_element_text(root, Path("atom", "subtitle"), namespaces),
                     link |->
                        primary_feed_link(findall(root, Path("atom", "link"), namespaces))],
                 entries |-> SelectSeq(data, has_some_content)],
              stderr |-> ""]

\* Lines 170-197: the RSS branch.
parse_rss(root, namespaces) ==
    LET channel == find(root, Path("", "channel"), namespaces)
    IN  IF channel = None
        THEN [value |-> None, stderr |-> ErrNoChannel]
        ELSE LET items == findall(channel, Path("", "item"), namespaces)
                 data == [i \in 1..Len(items) |-> rss_entry_data(items[i], namespaces)]
             IN  [value |->
                    [feed |->
                        [title |-> find_element_text(channel, Path("", "title"), namespaces),
                         description |->
                            find_element_text(channel, Path("", "description"), namespaces),
                         link |-> find_element_text(channel, Path("", "link"), namespaces)],
                     entries |-> SelectSeq(data, has_some_content)],
                  stderr |-> ""]

\* Lines 111-114: the namespaces map, {'atom': uri} when the root tag is "{uri}...".
detect_namespaces(root) ==
    IF \E i \in 1..Len(root.tag) : root.tag[i] = "}"
    THEN {<<"atom", root.tag[2]>>}
    ELSE {}

\* Line 118: is_atom = 'atom' in namespaces or root.tag.endswith('feed')
is_atom(root, namespaces) ==
    (\E p \in namespaces : p[1] = "atom") \/ endswith(root.tag, "feed")

\* Line 119: is_rss = root.tag.endswith('rss')
is_rss(root) == endswith(root.tag, "rss")

\* parse_feed_custom(feed_content): the value returned, and the error line printed
\* to stderr ("" for none).
parse_feed_custom(content) ==
    IF ~TruthyContent(content)
    THEN [value |-> None, stderr |-> ""]
    ELSE IF fromstring_raises_ParseError(strip_content(content))
    THEN [value |-> None, stderr |-> ErrParse]
    ELSE LET root == fromstring(strip_content(content))
             namespaces == detect_namespaces(root)
         IN  IF is_atom(root, namespaces) THEN parse_atom(root, namespaces)
             ELSE IF is_rss(root) THEN parse_rss(root, namespaces)
             ELSE [value |-> None, stderr |-> ErrUnknown]

-----------------------------------------------------------------------------
(* The feed documents the parser is run on *)

\* A child element <name>text</name> (text = NoneStr: <name/>) in namespace ns.
TextElem(ns, name, text) == Element(QName(ns, <<name>>), {}, text, <<>>)

\* The k-th URL and the k-th title of a document: distinct for distinct k.
Href(k) == <<"http://x/" \o ToString(k)>>
Title(k) == <<"T" \o ToString(k)>>

\* Optional text of a child element: no element, <e/>, whitespace only, text
\* with whitespace around it.
TextKinds == {"absent", "empty", "blank", "padded"}

TextChild(ns, name, kind, text) ==
    CASE kind = "absent" -> <<>>
      [] kind = "empty"  -> <<TextElem(ns, name, NoneStr)>>
      [] kind = "blank"  -> <<TextElem(ns, name, <<" ", " ">>)>>
      [] kind = "padded" -> <<TextElem(ns, name, <<" ">> \o text \o <<" ">>)>>
      [] kind = "plain"  -> <<TextElem(ns, name, text)>>

\* An Atom link element: rel absent, "", "alternate" or "self"; href absent, ""
\* or a URL.
RelKinds == {"absent", "empty", "alternate", "self"}
HrefKinds == {"absent", "empty", "url"}
LinkKinds == [rel : RelKinds, href : HrefKinds]

LinkElem(ns, kind, k) ==
    Element(QName(ns, <<"link">>),
            (CASE kind.rel = "absent" -> {}
               [] kind.rel = "empty" -> {<<"rel", <<>>>>}
               [] OTHER -> {<<"rel", <<kind.rel>>>>})
            \cup (CASE kind.href = "absent" -> {}
                    [] kind.href = "empty" -> {<<"href", <<>>>>}
                    [] kind.href = "url" -> {<<"href", Href(k)>>}),
            NoneStr, <<>>)

\* All sequences over S of length at most n.
SeqsUpTo(S, n) == UNION {[1..m -> S] : m \in 0..n}

LinkElems(ns, kinds) == [k \in 1..Len(kinds) |-> LinkElem(ns, kinds[k], k)]

AtomEntry(titleKind, k, links, rest) ==
    Element(QName(AtomNs, <<"entry">>), {}, NoneStr,
            links \o TextChild(AtomNs, "title", titleKind, Title(k)) \o rest)

AtomFeed(children) == Element(QName(AtomNs, <<"feed">>), {}, NoneStr, children)

RssFeed(channelChildren) ==
    Element(<<"rss">>, {<<"version", <<"2.0">>>>}, NoneStr,
            <<Element(<<"channel">>, {}, NoneStr, channelChildren)>>)

WellFormed(root) == Text(FALSE, Xml(TRUE, root))

\* Family 1: an Atom feed whose feed-level links vary.
FeedLinkDoc(kinds) ==
    WellFormed(AtomFeed(LinkElems(AtomNs, kinds) \o <<AtomEntry("plain", 1, <<>>, <<>>)>>))

\* Family 2: an Atom feed with one entry, with or without a title, whose links vary.
EntryLinkDoc(titleKind, kinds) ==
    WellFormed(AtomFeed(<<AtomEntry(titleKind, 9, LinkElems(AtomNs, kinds), <<>>)>>))

\* Family 3: an RSS channel whose items vary in title, link and description.
ItemKinds == [title : {"absent", "blank", "padded"}, link : {"empty", "blank", "padded"},
              description : {"absent", "plain"}]

RssItem(kind, k) ==
    Element(<<"item">>, {}, NoneStr,
            TextChild("", "title", kind.title, Title(k))
            \o TextChild("", "link", kind.link, Href(k))
            \o TextChild("", "description", kind.description, <<"D">>))

RssItemDoc(kinds) ==
    WellFormed(RssFeed(<<TextElem("", "title", <<"Ex">>)>>
                       \o [k \in 1..Len(kinds) |-> RssItem(kinds[k], k)]))

\* Family 4: an Atom feed whose entries vary in title, links, summary and content.
EntryKinds ==
    [title : {"absent", "blank", "padded"},
     links : {<<>>,
              <<[rel |-> "self", href |-> "url"]>>,
              <<[rel |-> "alternate", href |-> "empty"]>>},
     text : {<<"absent", "absent">>, <<"blank", "plain">>}]

AtomEntryOf(kind, k) ==
    Element(QName(AtomNs, <<"entry">>), {}, NoneStr,
            TextChild(AtomNs, "title", kind.title, Title(k))
            \o [j \in 1..Len(kind.links) |-> LinkElem(AtomNs, kind.links[j], k)]
            \o TextChild(AtomNs, "summary", kind.text[1], <<"S">>)
            \o TextChild(AtomNs, "content", kind.text[2], <<"C">>))

AtomEntryDoc(kinds) ==
    WellFormed(AtomFeed([k \in 1..Len(kinds) |-> AtomEntryOf(kinds[k], k)]))

\* Family 5: the feed-level text fields of an RSS channel and of an Atom feed.
FieldKinds == TextKinds \cup {"plain"}

RssTextDoc(t, d, l) ==
    WellFormed(RssFeed(TextChild("", "title", t, <<"Ex">>)
                       \o TextChild("", "description", d, <<"De", " ", "sc">>)
                       \o TextChild("", "link", l, Href(0))))

AtomTextDoc(t, d) ==
    WellFormed(AtomFeed(TextChild(AtomNs, "title", t, <<"Ex">>)
                        \o TextChild(AtomNs, "subtitle", d, <<"Sub">>)))

\* Family 6: a root of any name and namespace, well-formed or not, over the
\* bodies of the examples.  The children of a root that declares a default
\* namespace are in that namespace.
RootNames == {<<"feed">>, <<"rss">>, <<"foo">>, <<"my", "feed">>, <<"x", "rss">>,
              <<"feed", "s">>, <<"rss", "2">>}
RootNamespaces == {"", AtomNs, OtherNs}
Bodies == {"none", "bar", "rss", "atom", "channel-untitled"}

Body(ns, body) ==
    CASE body = "none" -> <<>>
      [] body = "bar" -> <<Element(QName(ns, <<"bar">>), {}, NoneStr, <<>>)>>
      [] body = "rss" ->
            <<Element(QName(ns, <<"channel">>), {}, NoneStr,
                <<TextElem(ns, "title", <<"Ex">>),
                  Element(QName(ns, <<"item">>), {}, NoneStr,
                    <<TextElem(ns, "title", <<"A">>),
                      TextElem(ns, "link", Href(1))>>)>>)>>
      [] body = "channel-untitled" ->
            <<Element(QName(ns, <<"channel">>), {}, NoneStr, <<>>)>>
      [] body = "atom" ->
            <<Element(QName(ns, <<"entry">>), {}, NoneStr,
                <<LinkElem(ns, [rel |-> "self", href |-> "url"], 1),
                  LinkElem(ns, [rel |-> "alternate", href |-> "url"], 2),
                  TextElem(ns, "title", <<"B">>)>>)>>

RootDoc(ws, wf, ns, name, body) ==
    Text(ws, Xml(wf, Element(QName(ns, name), {}, NoneStr, Body(ns, body))))

-----------------------------------------------------------------------------
(* fetch_feed_content *)

\* What requests.get met: an exception it raises (exc, "" for none), or a final
\* HTTP response with a status and a body.
Response(exc, status, body) == [exc |-> exc, status |-> status, body |-> body]
NoResponse == Response("", 0, None)

\* Subclasses of requests.exceptions.RequestException, and another exception.
RequestExceptions == {"ConnectionError", "Timeout"}
OtherExceptions == {"Exception"}

ErrFetch == "Error fetching URL"
ErrFetchUnexpected == "An unexpected error occurred during fetch"

\* response.raise_for_status() raises HTTPError for the statuses 400 to 599.
raise_for_status_raises(status) == 400 <= status /\ status < 600

\* fetch_feed_content(url) on what requests.get met: the value returned and the
\* error line printed to stderr.  The body decoded as UTF-8 (line 24) and
\* response.text (line 27, and line 21 of rss_reader_multi.py) are the same text here.
fetch_feed_content(resp) ==
    IF resp.exc \in RequestExceptions
    THEN [value |-> None, stderr |-> ErrFetch]
    ELSE IF resp.exc # ""
    THEN [value |-> None, stderr |-> ErrFetchUnexpected]
    ELSE IF raise_for_status_raises(resp.status)
    THEN [value |-> None, stderr |-> ErrFetch]
    ELSE [value |-> resp.body, stderr |-> ""]

-----------------------------------------------------------------------------
(* What the program prints and sends *)

\* One line of output: the stream ("net" for a request sent), the fixed text, and
\* the value printed with it (NoneStr for none).
Line(stream, msg, arg) == [stream |-> stream, msg |-> msg, arg |-> arg]
Stdout(msg, arg) == Line("stdout", msg, arg)
Stderr(msg) == Line("stderr", msg, NoneStr)

\* An error line, if there is one.
ErrLines(stderr) == IF stderr = "" THEN <<>> ELSE <<Stderr(stderr)>>

RECURSIVE entry_lines(_)
\* Lines 238-253: the lines of the entries.  A description is printed with its
\* surrounding whitespace removed; the documents here carry no markup or HTML
\* entities for lines 248-250 to rewrite.
entry_lines(entries) ==
    IF entries = <<>>
    THEN <<>>
    ELSE LET entry == Head(entries)
         IN  <<Stdout("* Title:", entry.title), Stdout("  Link:", entry.link)>>
             \o (IF Truthy(entry.description)
                 THEN <<Stdout("  Desc:", strip(entry.description))>>
                 ELSE <<Stdout("  Desc: Not Available", NoneStr)>>)
             \o entry_lines(Tail(entries))

\* display_parsed_data(parsed_data, url): the lines it prints.
display_parsed_data(data, url) ==
    IF data = None
    THEN <<Stderr("No data to display")>>
    ELSE <<Stdout("----", NoneStr), Stdout("Feed Source:", <<url>>),
           Stdout("--- Feed:", data.feed.title)>>
         \o (IF Truthy(data.feed.description)
             THEN <<Stdout("Description:", data.feed.description)>>
             ELSE <<>>)
         \o (IF data.entries = <<>>
             THEN <<Stdout("No entries found in this feed.", NoneStr)>>
             ELSE <<Stdout("--- Entries ---", NoneStr)>> \o entry_lines(data.entries))
         \o <<Stdout("----", NoneStr)>>

\* The fixed texts display_parsed_data prints.
DisplayMsgs == {"----", "Feed Source:", "--- Feed:", "Description:",
                "No entries found in this feed.", "--- Entries ---", "* Title:",
                "  Link:", "  Desc:", "  Desc: Not Available"}

-----------------------------------------------------------------------------
(* The feedparser library: parse_feed_library, and parse_feed of rss_reader_multi.py *)

EmptyFeed == [title |-> NoneStr, description |-> NoneStr, link |-> NoneStr]

\* What the library parser may return for a content: None (feedparser missing,
\* or an exception inside it), or the dictionary built from what feedparser
\* recovered, which is an external library's choice.
parse_feed_library(content) ==
    IF ~TruthyContent(content)
    THEN {None}
    ELSE {None,
          [feed |-> EmptyFeed, entries |-> <<>>],
          [feed |-> [EmptyFeed EXCEPT !.title = <<"Ex">>],
           entries |-> << [title |-> <<"A">>, link |-> Href(1),
                           description |-> NoneStr] >>]}

-----------------------------------------------------------------------------
(* main: the loop over feed_urls *)

Url(i) == "http://feed/" \o ToString(i)

\* The documents a server answers with.
ExampleRss ==
    WellFormed(Element(<<"rss">>, {}, NoneStr, Body("", "rss")))
\* <rss><channel><title>Oops</channel></rss>
ExampleMalformed ==
    Text(FALSE, Xml(FALSE,
        Element(<<"rss">>, {}, NoneStr,
            <<Element(<<"channel">>, {}, NoneStr, <<TextElem("", "title", <<"Oops">>)>>)>>)))
\* <foo><bar/></foo>
ExampleUnknown == WellFormed(Element(<<"foo">>, {}, NoneStr, Body("", "bar")))
ExampleAtom == WellFormed(Element(QName(AtomNs, <<"feed">>), {}, NoneStr, Body(AtomNs, "atom")))
\* An Atom feed cut off inside its second entry.
ExampleMalformedAtom ==
    Text(FALSE, Xml(FALSE,
        Element(QName(AtomNs, <<"feed">>), {}, NoneStr,
                <<TextElem(AtomNs, "title", <<"Cut">>)>> \o Body(AtomNs, "atom"))))
\* A channel with a title and no item.
ExampleNoItems == WellFormed(RssFeed(<<TextElem("", "title", <<"Ex">>)>>))

\* <feed xmlns="http://www.w3.org/2005/Atom"><title>Ex</title></feed>
ExampleEmptyAtom == WellFormed(AtomFeed(<<TextElem(AtomNs, "title", <<"Ex">>)>>))
\* <feed><title>Ex</title></feed>
ExampleBareFeed ==
    WellFormed(Element(<<"feed">>, {}, NoneStr, <<TextElem("", "title", <<"Ex">>)>>))
\* A channel whose only item has <link/>, a description and no title.
ExampleFilteredItem ==
    RssItemDoc(<< [title |-> "absent", link |-> "empty", description |-> "plain"] >>)
\* An Atom feed whose only entry has a blank title, a link with href="" and a
\* content.
ExampleFilteredEntry ==
    AtomEntryDoc(<< [title |-> "blank",
                     links |-> << [rel |-> "alternate", href |-> "empty"] >>,
                     text |-> <<"blank", "plain">>] >>)

ServedBodies == {EmptyStr, Text(TRUE, None), ExampleRss, ExampleMalformed,
                 ExampleMalformedAtom, ExampleUnknown, ExampleAtom, ExampleNoItems,
                 ExampleEmptyAtom, ExampleBareFeed, ExampleFilteredItem,
                 ExampleFilteredEntry}

\* What requests.get may meet.  A 204 and a 304 response carry no body; the body
\* of a 4xx or 5xx response is an error page.
Responses ==
    {Response(e, 0, None) : e \in RequestExceptions \cup OtherExceptions}
    \cup {Response("", 200, b) : b \in ServedBodies}
    \cup {Response("", 300, b) : b \in {EmptyStr, ExampleRss}}
    \cup {Response("", st, EmptyStr) : st \in {204, 304}}
    \cup {Response("", st, ExampleUnknown) : st \in {404, 503}}

Init ==
    /\ feed_urls \in {[i \in 1..n |-> Url(i)] : n \in 1..MaxUrls}
    /\ use_custom_parser \in BOOLEAN
    /\ idx = 0
    /\ pc = "for"
    /\ response = NoResponse
    /\ feed_content = None
    /\ parsed_data = None
    /\ out = <<>>
    /\ result = NoResult

\* Lines 301-303: the next URL, if any; the loop ends after the last.
ForNext ==
    /\ pc = "for"
    /\ idx < Len(feed_urls)
    /\ idx' = idx + 1
    /\ out' = out \o <<Stdout(">>> Processing feed:", <<feed_urls[idx + 1]>>),
                       Stdout("Fetching content...", NoneStr)>>
    /\ pc' = "fetch"
    /\ UNCHANGED <<feed_content, result, feed_urls, response, parsed_data,
                   use_custom_parser>>

ForEnd ==
    /\ pc = "for"
    /\ idx = Len(feed_urls)
    /\ pc' = "done"
    /\ UNCHANGED <<feed_content, result, feed_urls, idx, response, parsed_data,
                   use_custom_parser, out>>

\* An exception of requests.get leaves fetch_feed_content and ends main.
Fetch_uncaught ==
    /\ pc = "fetch"
    /\ \E resp \in Responses :
          /\ response' = resp
          /\ feed_content' = fetch_feed_content(resp).value
          /\ out' = out \o <<Line("net", "GET", <<feed_urls[idx]>>)>>
                        \o ErrLines(fetch_feed_content(resp).stderr)
          /\ pc' = IF resp.exc # "" THEN "aborted" ELSE "if_content"
    /\ UNCHANGED <<result, feed_urls, idx, parsed_data, use_custom_parser>>

\* Line 304: feed_content = fetch_feed_content(feed_url)
Fetch ==
    /\ pc = "fetch"
    /\ \E resp \in Responses :
          /\ response' = resp
          /\ feed_content' = fetch_feed_content(resp).value
          /\ out' = out \o <<Line("net", "GET", <<feed_urls[idx]>>)>>
                        \o ErrLines(fetch_feed_content(resp).stderr)
    /\ pc' = "if_content"
    /\ UNCHANGED <<result, feed_urls, idx, parsed_data, use_custom_parser>>

\* The test "if feed_content is not None": an empty body is parsed.
IfContent_is_not_None ==
    /\ pc = "if_content"
    /\ IF feed_content # None
       THEN /\ out' = out \o <<Stdout("Parsing feed...", NoneStr)>>
            /\ pc' = "parse"
       ELSE /\ out' = out \o <<Stdout("Failed to fetch the feed content for",
                                      <<feed_urls[idx]>>)>>
            /\ pc' = "finished"
    /\ UNCHANGED <<feed_content, result, feed_urls, idx, response, parsed_data,
                   use_custom_parser>>

\* Lines 306-307 and 314-315: if feed_content
IfContent ==
    /\ pc = "if_content"
    /\ IF TruthyContent(feed_content)
       THEN /\ out' = out \o <<Stdout("Parsing feed...", NoneStr)>>
            /\ pc' = "parse"
       ELSE /\ out' = out \o <<Stdout("Failed to fetch the feed content for",
                                      <<feed_urls[idx]>>)>>
            /\ pc' = "finished"
    /\ UNCHANGED <<feed_content, result, feed_urls, idx, response, parsed_data,
                   use_custom_parser>>

\* Line 308: parsed_data = parse_function(feed_content), with the parser of
\* lines 293-298.
Parse ==
    /\ pc = "parse"
    /\ IF use_custom_parser
       THEN /\ parsed_data' = parse_feed_custom(feed_content).value
            /\ out' = out \o ErrLines(parse_feed_custom(feed_content).stderr)
       ELSE /\ parsed_data' \in parse_feed_library(feed_content)
            /\ out' = out
    /\ pc' = "if_parsed"
    /\ UNCHANGED <<feed_content, result, feed_urls, idx, response, use_custom_parser>>

\* Lines 309-310 and 312-313: if parsed_data
IfParsed ==
    /\ pc = "if_parsed"
    /\ IF parsed_data # None
       THEN /\ out' = out \o <<Stdout("Displaying feed:", NoneStr)>>
            /\ pc' = "display"
       ELSE /\ out' = out \o <<Stdout("Failed to parse the feed content for",
                                      <<feed_urls[idx]>>)>>
            /\ pc' = "finished"
    /\ UNCHANGED <<feed_content, result, feed_urls, idx, response, parsed_data,
                   use_custom_parser>>

\* Line 311: display_parsed_data(parsed_data, feed_url)
Display ==
    /\ pc = "display"
    /\ out' = out \o display_parsed_data(parsed_data, feed_urls[idx])
    /\ pc' = "finished"
    /\ UNCHANGED <<feed_content, result, feed_urls, idx, response, parsed_data,
                   use_custom_parser>>

\* Line 316: print("<<< Finished processing feed."), and back to the for.
Finished ==
    /\ pc = "finished"
    /\ out' = out \o <<Stdout("<<< Finished processing feed.", NoneStr)>>
    /\ pc' = "for"
    /\ UNCHANGED <<feed_content, result, feed_urls, idx, response, parsed_data,
                   use_custom_parser>>

Next ==
    \/ ForNext
    \/ ForEnd
    \/ Fetch
    \/ IfContent
    \/ Parse
    \/ IfParsed
    \/ Display
    \/ Finished

Spec == Init /\ [][Next]_vars

-----------------------------------------------------------------------------
(* Reading a state of Spec *)

LinesWith(msg) == SelectSeq(out, LAMBDA l : l.msg = msg)

Args(lines) == [i \in DOMAIN lines |-> lines[i].arg]

\* The first n URLs of the list, as they are printed.
UrlsUpTo(n) == [i \in 1..n |-> <<feed_urls[i]>>]

\* The lines of the current iteration: from its ">>> Processing feed:" on.
CurrentLines ==
    LET start == CHOOSE i \in DOMAIN out :
                    /\ out[i].msg = ">>> Processing feed:"
                    /\ \A j \in (i + 1)..Len(out) : out[j].msg # ">>> Processing feed:"
    IN  SubSeq(out, start, Len(out))

\* The statements of an iteration after the call of the parser.
AfterParse == pc \in {"if_parsed", "display", "finished"}

-----------------------------------------------------------------------------
(* C1 *)

\* C1: the loop takes the URLs once each and in input order, whatever the fetch
\* and the parse of each give: at every point the URLs begun are the first idx of
\* the list, each was requested once, every URL before the current one reached
\* "<<< Finished processing feed.", the loop is never stopped before its end, and
\* at its end every URL of the list was processed.
C1_EveryUrlProcessedInOrder ==
    /\ idx <= Len(feed_urls)
    /\ Args(LinesWith(">>> Processing feed:")) = UrlsUpTo(idx)
    /\ Args(LinesWith("GET")) = UrlsUpTo(IF pc = "fetch" THEN idx - 1 ELSE idx)
    /\ Len(LinesWith("<<< Finished processing feed.")) =
          (IF pc \in {"for", "done", "call", "return"} THEN idx ELSE idx - 1)
    /\ (pc = "done") => (idx = Len(feed_urls))
    /\ (pc \notin {"done", "call", "return"}) => ENABLED Next

\* The loop ended after a first URL whose fetch raised and a second URL whose
\* feed was displayed.
C1_Witness ==
    /\ pc = "done"
    /\ Len(feed_urls) = 2
    /\ \E i, j \in DOMAIN out :
          /\ i < j
          /\ out[i] = Stdout("Failed to fetch the feed content for", <<feed_urls[1]>>)
          /\ out[j] = Stdout("Feed Source:", <<feed_urls[2]>>)
    /\ \E i \in DOMAIN out : out[i] = Stderr(ErrFetch)

-----------------------------------------------------------------------------
(* C9 *)

\* Not well-formed XML: nothing but whitespace, or an XML text with an error.
IllFormed(content) == content.doc = None \/ ~content.doc.wf

\* C9: when the custom parser is given a content that is not well-formed XML, it
\* reports the XML error and returns None: the loop takes the "Failed to parse"
\* path, and no line of the feed or of its entries is displayed.
C9_MalformedYieldsNoData ==
    (/\ use_custom_parser
     /\ AfterParse
     /\ TruthyContent(feed_content)
     /\ IllFormed(feed_content))
    => /\ parsed_data = None
       /\ pc # "display"
       /\ \E i \in DOMAIN CurrentLines : CurrentLines[i] = Stderr(ErrParse)
       /\ \A i \in DOMAIN CurrentLines :
             CurrentLines[i].msg \notin DisplayMsgs \cup {"Displaying feed:"}
       /\ (pc = "finished") =>
             \E i \in DOMAIN CurrentLines :
                CurrentLines[i].msg = "Failed to parse the feed content for"

\* The iteration of <rss><channel><title>Oops</channel></rss> reached its end.
C9_Witness ==
    /\ use_custom_parser
    /\ pc = "finished"
    /\ feed_content = ExampleMalformed
    /\ parsed_data = None

-----------------------------------------------------------------------------
(* C10 *)

\* C10: after a response whose final status is outside 200-299, fetch_feed_content
\* has returned no content.
C10_OnlySuccessStatusYieldsBody ==
    (/\ pc = "if_content"
     /\ response.exc = ""
     /\ ~(200 <= response.status /\ response.status <= 299))
    => ~TruthyContent(feed_content)

\* A 404 response was fetched, and no content returned.
C10_Witness ==
    /\ pc = "if_content"
    /\ response.exc = ""
    /\ response.status = 404
    /\ feed_content = None

-----------------------------------------------------------------------------
(* ParseSpec: parse_feed_custom called once, on any of Contents *)

\* parse_feed_custom is called with None, "", whitespace, or a document of one of
\* the families.
ParseInit ==
    /\ \/ feed_content \in {None, EmptyStr, Text(TRUE, None)}
       \/ \E kinds \in SeqsUpTo(LinkKinds, MaxLinks) :
             feed_content = FeedLinkDoc(kinds)
       \/ \E kinds \in SeqsUpTo(LinkKinds, MaxLinks) :
             feed_content = EntryLinkDoc("plain", kinds)
       \/ \E kinds \in SeqsUpTo(LinkKinds, 2) :
             feed_content = EntryLinkDoc("absent", kinds)
       \/ \E kinds \in SeqsUpTo(ItemKinds, MaxEntries) :
             feed_content = RssItemDoc(kinds)
       \/ \E kinds \in SeqsUpTo(EntryKinds, MaxEntries) :
             feed_content = AtomEntryDoc(kinds)
       \/ \E t \in FieldKinds, d \in FieldKinds, l \in FieldKinds :
             feed_content = RssTextDoc(t, d, l)
       \/ \E t \in FieldKinds, d \in FieldKinds :
             feed_content = AtomTextDoc(t, d)
       \/ \E ws \in BOOLEAN, wf \in BOOLEAN, ns \in RootNamespaces,
             name \in RootNames, body \in Bodies :
             feed_content = RootDoc(ws, wf, ns, name, body)
    /\ result = NoResult
    /\ pc = "call"
    /\ feed_urls = <<>>
    /\ idx = 0
    /\ response = NoResponse
    /\ parsed_data = None
    /\ use_custom_parser = TRUE
    /\ out = <<>>

ParseCall ==
    /\ pc = "call"
    /\ result' = parse_feed_custom(feed_content)
    /\ pc' = "return"
    /\ UNCHANGED <<feed_content, feed_urls, idx, response, parsed_data,
                   use_custom_parser, out>>

ParseNext == ParseCall

ParseSpec == ParseInit /\ [][ParseNext]_vars

-----------------------------------------------------------------------------
(* Reading a state of ParseSpec *)

Returned == pc = "return"

\* parse_feed_custom returned a feed.
Parsed == Returned /\ result.value # None

IsXml(content) == content # None /\ content.doc # None

TheRoot == feed_content.doc.root

LocalName(element) == element.tag[Len(element.tag)]

\* The namespace URI of an element's tag, "" for none.
NamespaceOf(element) == IF element.tag[1] = "{" THEN element.tag[2] ELSE ""

\* The children of an element with a local name, in document order.
Kids(element, local) == SelectSeq(element.children, LAMBDA c : LocalName(c) = local)

\* The entry (Atom) or item (RSS) elements of the document that was parsed.
InEntries ==
    IF NamespaceOf(TheRoot) # ""
    THEN Kids(TheRoot, "entry")
    ELSE Kids(Kids(TheRoot, "channel")[1], "item")

OutEntries == result.value.entries

NonEmpty(s) == s # NoneStr /\ Len(s) > 0

Contains(text, token) == \E i \in DOMAIN text : text[i] = token

Attr(element, name) == {p[2] : p \in {q \in element.attrib : q[1] = name}}

\* The entry of the result carries the title or a URL of the k-th entry written.
Marked(entry, k) == entry.title = Title(k) \/ entry.link = Href(k)

-----------------------------------------------------------------------------
(* C2 *)

\* C2: every entry parse_feed_custom returns has a non-empty title or a non-empty
\* link (so an entry with neither is dropped, whatever its description); the
\* entries kept are in document order, and an entry with a title is kept.
C2_EntriesHaveTitleOrLink ==
    Parsed =>
        /\ \A i \in DOMAIN OutEntries :
              NonEmpty(OutEntries[i].title) \/ NonEmpty(OutEntries[i].link)
        /\ Len(OutEntries) <= Len(InEntries)
        /\ \A i, j \in DOMAIN OutEntries : \A a, b \in DOMAIN InEntries :
              (i < j /\ Marked(OutEntries[i], a) /\ Marked(OutEntries[j], b)) => a < b
        /\ \A k \in DOMAIN InEntries :
              (/\ Kids(InEntries[k], "title") # <<>>
               /\ Contains(Kids(InEntries[k], "title")[1].text, Title(k)[1]))
              => \E i \in DOMAIN OutEntries : OutEntries[i].title = Title(k)

\* An item with a description but a blank title and a blank link was dropped, and
\* the item after it was kept.
C2_Witness ==
    /\ Parsed
    /\ Len(InEntries) = 2
    /\ Len(OutEntries) = 1
    /\ Kids(InEntries[1], "description") # <<>>
    /\ Kids(InEntries[1], "title") # <<>>
    /\ Kids(InEntries[1], "link") # <<>>
    /\ Marked(OutEntries[1], 2)

-----------------------------------------------------------------------------
(* C3, C4: Atom link selection *)

Links(element) == Kids(element, "link")

IsAlternate(link) == <<"alternate">> \in Attr(link, "rel")
IsSelf(link) == <<"self">> \in Attr(link, "rel")
\* No rel attribute at all.
RelAbsent(link) == Attr(link, "rel") = {}
\* No rel attribute, or rel="".
RelLess(link) == Attr(link, "rel") \subseteq {<<>>}
HasHref(link) == \E h \in Attr(link, "href") : h # <<>>
HrefOf(link) ==
    IF Attr(link, "href") = {} THEN NoneStr ELSE CHOOSE h \in Attr(link, "href") : TRUE

\* The links that come first in the two orders of preference.
Preferred(link) == (IsAlternate(link) \/ RelLess(link)) /\ HasHref(link)
AlternateWithHref(link) == IsAlternate(link) /\ HasHref(link)

IsFirst(links, i, P(_)) == P(links[i]) /\ \A j \in 1..(i - 1) : ~P(links[j])

\* The document is an Atom feed in the Atom namespace.
AtomDocument == TheRoot.tag = QName(AtomNs, <<"feed">>)

\* Every entry written was kept, so that the k-th entry returned is the k-th written.
AllKept == Len(OutEntries) = Len(InEntries)

ThreeLevel(links) ==
    IF \E i \in DOMAIN links : IsAlternate(links[i])
    THEN HrefOf(links[CHOOSE i \in DOMAIN links : IsFirst(links, i, IsAlternate)])
    ELSE IF \E i \in DOMAIN links : RelAbsent(links[i])
    THEN HrefOf(links[CHOOSE i \in DOMAIN links : IsFirst(links, i, RelAbsent)])
    ELSE IF links # <<>> THEN HrefOf(links[1])
    ELSE NoneStr

\* First link with a non-empty href whose rel is "alternate", missing or empty,
\* else the first link.
TwoLevel(links) ==
    IF \E i \in DOMAIN links : Preferred(links[i])
    THEN HrefOf(links[CHOOSE i \in DOMAIN links : IsFirst(links, i, Preferred)])
    ELSE IF links # <<>> THEN HrefOf(links[1])
    ELSE NoneStr

AllHaveHref(links) == \A i \in DOMAIN links : HasHref(links[i])

-----------------------------------------------------------------------------
(* C5, C6, C7: dialect detection *)

\* parse_feed_custom was given a well-formed XML text.
GivenWellFormed == Returned /\ IsXml(feed_content) /\ feed_content.doc.wf

\* The example document: <feed><entry><link rel="self" href=.../><link
\* rel="alternate" href=.../><title>B</title></entry></feed>, in namespace ns.
ExampleFeed(ns) == Element(QName(ns, <<"feed">>), {}, NoneStr, Body(ns, "atom"))

\* C5: a well-formed document whose root name ends in "feed" is parsed as Atom and
\* a feed is returned, with or without a namespace on the root; the example
\* document yields one entry with title B and the alternate link's href.
C5_FeedRootParsesAsAtom ==
    (GivenWellFormed /\ LocalName(TheRoot) = "feed") =>
        /\ result.value # None
        /\ \A ns \in RootNamespaces :
              TheRoot = ExampleFeed(ns) =>
                  result.value.entries =
                      << [title |-> <<"B">>, link |-> Href(2), description |-> NoneStr] >>

\* The example document without a namespace was parsed.
C5_Witness ==
    /\ GivenWellFormed
    /\ TheRoot = ExampleFeed("")

\* C6: a well-formed document whose root name ends in neither "feed" nor "rss" and
\* whose root is not in the Atom namespace fails with the unknown-dialect error.
C6_UnknownDialect ==
    (/\ GivenWellFormed
     /\ LocalName(TheRoot) \notin {"feed", "rss"}
     /\ NamespaceOf(TheRoot) # AtomNs)
    => (result.value = None /\ result.stderr = ErrUnknown)

\* A document with such a root, in a namespace of its own, was parsed.
C6_Witness ==
    /\ GivenWellFormed
    /\ TheRoot.tag = QName(OtherNs, <<"foo">>)

\* C7: a well-formed document whose root name ends in "rss" (and is not in the
\* Atom namespace, which would make it Atom) and that has no channel child fails
\* with the missing-channel error, and no feed is returned.
C7_MissingChannel ==
    (/\ GivenWellFormed
     /\ LocalName(TheRoot) = "rss"
     /\ NamespaceOf(TheRoot) # AtomNs
     /\ Kids(TheRoot, "channel") = <<>>)
    => (result.value = None /\ result.stderr = ErrNoChannel)

\* An <rss> root without namespace and without channel was parsed.
C7_Witness ==
    /\ GivenWellFormed
    /\ TheRoot.tag = <<"rss">>
    /\ Kids(TheRoot, "channel") = <<>>
    /\ result.stderr = ErrNoChannel

-----------------------------------------------------------------------------
(* C8: text fields *)

\* None, or a non-empty text without whitespace at either end.
AbsentOrTrimmed(s) == s = NoneStr \/ (s # <<>> /\ s[1] # " " /\ s[Len(s)] # " ")

FieldsAbsentOrTrimmed(r) ==
    AbsentOrTrimmed(r.title) /\ AbsentOrTrimmed(r.description) /\ AbsentOrTrimmed(r.link)

\* C8: every title, description and link of the feed returned and of its entries
\* is None or a trimmed, non-empty text: never an empty string.
C8_TextAbsentOrTrimmed ==
    Parsed =>
        /\ FieldsAbsentOrTrimmed(result.value.feed)
        /\ \A i \in DOMAIN OutEntries : FieldsAbsentOrTrimmed(OutEntries[i])

\* A channel whose title is whitespace only was parsed.
C8_Witness ==
    /\ Parsed
    /\ NamespaceOf(TheRoot) = ""
    /\ Kids(Kids(TheRoot, "channel")[1], "title") # <<>>
    /\ Kids(Kids(TheRoot, "channel")[1], "title")[1].text = <<" ", " ">>

-----------------------------------------------------------------------------
(* C11: a feed without entries *)

\* The text of the first child of that name has a character that is not whitespace.
HasText(element, local) ==
    /\ Kids(element, local) # <<>>
    /\ Kids(element, local)[1].text # NoneStr
    /\ \E i \in DOMAIN Kids(element, local)[1].text : Kids(element, local)[1].text[i] # " "

\* The dialect of a root: Atom for a name ending in "feed" or the Atom namespace,
\* RSS for a name ending in "rss" with a channel child.
DetectedAtom(root) == LocalName(root) = "feed" \/ NamespaceOf(root) = AtomNs
DetectedRssWithChannel(root) ==
    ~DetectedAtom(root) /\ LocalName(root) = "rss" /\ Kids(root, "channel") # <<>>

\* The entry or item children of the document.
Candidates(root) ==
    IF DetectedAtom(root) THEN Kids(root, "entry") ELSE Kids(Kids(root, "channel")[1], "item")

\* An entry or item with neither a title nor a link: it is filtered out.
NoTitleNoLink(root, entry) ==
    /\ ~HasText(entry, "title")
    /\ IF DetectedAtom(root)
       THEN \A i \in DOMAIN Links(entry) : ~HasHref(Links(entry)[i])
       ELSE ~HasText(entry, "link")

\* The document fetched is well-formed, of a detected dialect, and has no entry
\* or item that is kept.
ZeroEntryDocument ==
    /\ TruthyContent(feed_content)
    /\ IsXml(feed_content)
    /\ feed_content.doc.wf
    /\ DetectedAtom(TheRoot) \/ DetectedRssWithChannel(TheRoot)
    /\ \A i \in DOMAIN Candidates(TheRoot) : NoTitleNoLink(TheRoot, Candidates(TheRoot)[i])

\* C11: for a document of a detected dialect that yields no entry, the custom
\* parser returns a feed with an empty entry sequence and prints no error; the
\* loop takes the display path, which prints "No entries found in this feed.",
\* and never the "Failed to parse" path.
C11_ZeroEntriesIsSuccess ==
    (use_custom_parser /\ AfterParse /\ ZeroEntryDocument)
    => /\ parsed_data # None
       /\ parsed_data.entries = <<>>
       /\ \A i \in DOMAIN CurrentLines :
             /\ CurrentLines[i].stream # "stderr"
             /\ CurrentLines[i].msg # "Failed to parse the feed content for"
       /\ (pc \in {"display", "finished"}) =>
             \E i \in DOMAIN CurrentLines : CurrentLines[i].msg = "Displaying feed:"
       /\ (pc = "finished") =>
             \E i \in DOMAIN CurrentLines :
                CurrentLines[i].msg = "No entries found in this feed."

\* The iteration of <feed><title>Ex</title></feed> reached its end on the
\* "Failed to parse" path.
C11_Witness ==
    /\ use_custom_parser
    /\ pc = "finished"
    /\ feed_content = ExampleBareFeed
    /\ ZeroEntryDocument
    /\ \E i \in DOMAIN CurrentLines :
          CurrentLines[i].msg = "Failed to parse the feed content for"

-----------------------------------------------------------------------------
(* C12: the steps of an iteration *)

\* The step of an iteration a line of output belongs to: 0 the head of the loop
\* body, 1 the fetch, 2 the test of the content, 3 the parse, 4 the test of the
\* result, 5 the display, 6 the end of the body.
StepOf(line) ==
    CASE line.msg \in {">>> Processing feed:", "Fetching content..."} -> 0
      [] line.msg \in {"GET", ErrFetch, ErrFetchUnexpected} -> 1
      [] line.msg \in {"Parsing feed...", "Failed to fetch the feed content for"} -> 2
      [] line.msg \in {ErrParse, ErrUnexpected, ErrNoChannel, ErrUnknown} -> 3
      [] line.msg \in {"Displaying feed:", "Failed to parse the feed content for"} -> 4
      [] line.msg \in DisplayMsgs \cup {"No data to display"} -> 5
      [] line.msg = "<<< Finished processing feed." -> 6

CurrentMsgs == {CurrentLines[i].msg : i \in DOMAIN CurrentLines}

\* The response is a success with an empty body.
EmptySuccess ==
    /\ response.exc = ""
    /\ 200 <= response.status /\ response.status <= 299
    /\ response.body = EmptyStr

\* C12: in an iteration the parser is called only with the non-empty content that
\* the fetch of this URL returned, and a successful response with an empty body
\* is not parsed but reported as a fetch failure; the display runs only with the
\* result the parser returned; the steps of an iteration follow one another in
\* order, and the fetch of a URL starts only when every earlier URL has reached
\* "<<< Finished processing feed.".
C12_StepsGatedAndSequential ==
    /\ (pc \in {"parse", "if_parsed", "display"}) =>
          /\ TruthyContent(feed_content)
          /\ response.exc = ""
          /\ feed_content = response.body
          /\ \E i, j \in DOMAIN CurrentLines :
                /\ i < j
                /\ CurrentLines[i] = Line("net", "GET", <<feed_urls[idx]>>)
                /\ CurrentLines[j].msg = "Parsing feed..."
    /\ (pc \in {"parse", "if_parsed", "display", "finished"} /\ EmptySuccess) =>
          /\ pc = "finished"
          /\ "Failed to fetch the feed content for" \in CurrentMsgs
          /\ CurrentMsgs \cap ({"Parsing feed...", "Displaying feed:",
                                "Failed to parse the feed content for"}
                               \cup DisplayMsgs) = {}
    /\ (pc = "display" \/ (pc \in {"finished", "for", "done"}
                            /\ out # <<>>
                            /\ "Displaying feed:" \in CurrentMsgs)) =>
          /\ parsed_data # None
          /\ \E i, j \in DOMAIN CurrentLines :
                /\ i < j
                /\ CurrentLines[i].msg = "Parsing feed..."
                /\ CurrentLines[j].msg = "Displaying feed:"
    /\ (pc \notin {"call", "return"} /\ out # <<>>) =>
          \A i, j \in DOMAIN CurrentLines :
             i < j => StepOf(CurrentLines[i]) <= StepOf(CurrentLines[j])
    /\ (pc = "fetch") =>
          /\ Len(LinesWith("<<< Finished processing feed.")) = idx - 1
          /\ \A i \in DOMAIN CurrentLines : StepOf(CurrentLines[i]) = 0
    /\ \A i \in DOMAIN out :
          (out[i].msg = "GET") =>
             Len(SelectSeq(SubSeq(out, 1, i - 1),
                           LAMBDA l : l.msg = "<<< Finished processing feed."))
             = Len(SelectSeq(SubSeq(out, 1, i - 1), LAMBDA l : l.msg = "GET"))

\* The first URL was displayed; the second was answered 200 with an empty body
\* and its iteration reached its end reporting a fetch failure.
C12_Witness ==
    /\ pc = "finished"
    /\ idx = 2
    /\ response = Response("", 200, EmptyStr)
    /\ CurrentLines[Len(CurrentLines)] =
          Stdout("Failed to fetch the feed content for", <<feed_urls[2]>>)
    /\ \E i \in DOMAIN out : out[i] = Stdout("Feed Source:", <<feed_urls[1]>>)

=============================================================================
